---------------------------- MODULE Spec2Model ----------------------------
(***************************************************************************)
(* ARNet device diagnostics: DeviceResolver (network_tools/                *)
(* device_resolver.py) and the host loop that drives it (main.py).         *)
(*                                                                         *)
(* Conventions of the model                                                *)
(*   - Python None is the value None below; a dict is a record, and a dict *)
(*     whose insertion order matters (ports, the registry's declared       *)
(*     ports) is a sequence of entries in insertion order.                 *)
(*   - A text is a sequence of tokens ("time=", "ms", " ", digits, ".",    *)
(*     "-", "+", "txt" for any other text); the ping output is the         *)
(*     sequence of its lines.                                              *)
(*   - Latencies are integers: thousandths of a millisecond as parsed,     *)
(*     hundredths after round(x, 2).  A Python float is a binary double:   *)
(*     it is modelled as its decimal value and the sign of its binary      *)
(*     error, which is what decides round(x, 2) on a decimal tie (x.xx5 is *)
(*     never a double, so round() never sees an exact tie there).          *)
(*   - The loss string f"{x}%" is the exact fraction num/den (percent).    *)
(***************************************************************************)
EXTENDS Integers, Sequences, FiniteSets, TLC

VARIABLES
    device_map,            \* DeviceResolver.device_map (the registry)
    current_device,        \* main: current_device
    current_diagnostics,   \* main: current_diagnostics
    last_scan_time,        \* main: last_scan_time
    last_ping_time,        \* main: last_ping_time
    now,                   \* the wall clock (time.time(), datetime.now())
    running,               \* main: the while loop has not been left
    pingIn,                \* ping(): what the external facility did
    pingCount,             \* ping(): the count argument
    pingRes,               \* ping(): the returned value, once called
    resIn,                 \* get_device_info(): the device_info argument
    resOut,                \* get_device_info(): the returned value, once called
    probeLog,              \* probes made by the last get_device_info() call
    sockets                \* probe sockets created and not released

vars == <<device_map, current_device, current_diagnostics, last_scan_time,
          last_ping_time, now, running, pingIn, pingCount, pingRes,
          resIn, resOut, probeLog, sockets>>

hostVars == <<current_device, current_diagnostics, last_scan_time,
              last_ping_time, now, running>>
pingVars == <<pingIn, pingCount, pingRes>>
resVars == <<resIn, resOut, probeLog, sockets>>

-----------------------------------------------------------------------------
(* Bounds of the model *)

MaxLines == 3       \* lines of a ping output
MaxCount == 2       \* largest count passed to ping() in SpecPing
MaxDeclared == 2    \* declared ports of a registry entry
MaxTime == 9        \* the clock stops here
MaxSockets == 3     \* unreleased sockets are counted up to here

(* Program constants *)

DefaultCount == 2   \* ping(self, ip, count=2)
ScanInterval == 2   \* scan_interval = 2.0
PingInterval == 3   \* ping_interval = 3.0

-----------------------------------------------------------------------------
(* Python values *)

None == [none |-> TRUE]
NoneStr == "None"          \* None where a string is expected
Pending == [pending |-> TRUE]

Some(x) == <<x>>
Absent == <<>>

RECURSIVE SeqSum(_)
SeqSum(s) == IF s = <<>> THEN 0 ELSE Head(s) + SeqSum(Tail(s))

SeqMin(s) == CHOOSE m \in {s[i] : i \in 1..Len(s)} :
                 \A i \in 1..Len(s) : m <= s[i]
SeqMax(s) == CHOOSE m \in {s[i] : i \in 1..Len(s)} :
                 \A i \in 1..Len(s) : m >= s[i]

RECURSIVE Pow10(_)
Pow10(n) == IF n = 0 THEN 1 ELSE 10 * Pow10(n - 1)

\* round(a / b) to the nearest integer (b > 0) of the double that lies just
\* below (err < 0) or just above (err > 0) a / b, or is a / b (err = 0)
RoundDiv(a, b, err) ==
    LET q == a \div b
        r == a % b
    IN  IF 2 * r < b THEN q
        ELSE IF 2 * r > b THEN q + 1
        ELSE IF err < 0 THEN q
        ELSE IF err > 0 THEN q + 1
        ELSE IF q % 2 = 0 THEN q ELSE q + 1

-----------------------------------------------------------------------------
(* Text *)

Digits == {"0", "1", "2", "3", "4", "5", "6", "7", "8", "9"}
DigitVal(c) == CASE c = "0" -> 0 [] c = "1" -> 1 [] c = "2" -> 2
                 [] c = "3" -> 3 [] c = "4" -> 4 [] c = "5" -> 5
                 [] c = "6" -> 6 [] c = "7" -> 7 [] c = "8" -> 8
                 [] c = "9" -> 9

Contains(s, t) == \E i \in 1..Len(s) : s[i] = t
FirstIndex(s, t) == CHOOSE i \in 1..Len(s) :
                        s[i] = t /\ \A j \in 1..(i - 1) : s[j] # t

\* s.split(t)[1]: what follows the first t, up to the next t (s contains t)
AfterFirst(s, t) ==
    LET rest == SubSeq(s, FirstIndex(s, t) + 1, Len(s))
    IN  IF Contains(rest, t) THEN SubSeq(rest, 1, FirstIndex(rest, t) - 1)
        ELSE rest

\* s.split(t)[0]: what precedes the first t
BeforeFirst(s, t) ==
    IF Contains(s, t) THEN SubSeq(s, 1, FirstIndex(s, t) - 1) ELSE s

RECURSIVE LStrip(_)
LStrip(s) == IF s # <<>> /\ Head(s) = " " THEN LStrip(Tail(s)) ELSE s
RECURSIVE RStrip(_)
RStrip(s) == IF s # <<>> /\ s[Len(s)] = " "
             THEN RStrip(SubSeq(s, 1, Len(s) - 1)) ELSE s
Strip(s) == RStrip(LStrip(s))

RECURSIVE DigitsVal(_)
DigitsVal(s) == IF s = <<>> THEN 0
                ELSE DigitsVal(SubSeq(s, 1, Len(s) - 1)) * 10
                     + DigitVal(s[Len(s)])

AllDigits(s) == s # <<>> /\ \A i \in 1..Len(s) : s[i] \in Digits

\* float(s) accepts s: an optional sign, digits with at most one ".", and at
\* least one digit (surrounding blanks are already stripped by the caller)
Unsigned(s) == IF s # <<>> /\ Head(s) \in {"-", "+"} THEN Tail(s) ELSE s
IntPart(s) == BeforeFirst(s, ".")
FracPart(s) == IF Contains(s, ".")
               THEN SubSeq(s, FirstIndex(s, ".") + 1, Len(s)) ELSE <<>>
FloatOk(s) ==
    LET u == Unsigned(s)
    IN  /\ \A i \in 1..Len(IntPart(u)) : IntPart(u)[i] \in Digits
        /\ \A i \in 1..Len(FracPart(u)) : FracPart(u)[i] \in Digits
        /\ Len(IntPart(u)) + Len(FracPart(u)) >= 1

\* float(s) in thousandths (at most three fraction digits are kept)
FloatVal(s) ==
    LET u == Unsigned(s)
        f == FracPart(u)
        f3 == IF Len(f) > 3 THEN SubSeq(f, 1, 3) ELSE f
        mag == DigitsVal(IntPart(u)) * 1000 + DigitsVal(f3) * Pow10(3 - Len(f3))
    IN  IF s # <<>> /\ Head(s) = "-" THEN 0 - mag ELSE mag

\* the literals of the model whose double lies below their decimal value
\* (0.045 is 0.04499999999999999833..., 1.2 is 1.19999999999999995559...)
ReprBelow == {45, 1200}

\* the sign of double(d / 1000) - d / 1000: multiples of 1/8 are exact
ReprErr(d) == IF d % 125 = 0 THEN 0
              ELSE IF d \in ReprBelow THEN 0 - 1 ELSE 1

\* round(x, 2) of the double next to num / den thousandths, in hundredths
Round2(num, den, err) == RoundDiv(num, den * 10, err)

-----------------------------------------------------------------------------
(* DeviceResolver.ping *)

\* line.split("time=")[1].split("ms")[0].strip()
TimeStr(line) == Strip(BeforeFirst(AfterFirst(line, "time="), "ms"))

\* the for loop over output.split('\n'): the samples appended to times
RECURSIVE Times(_)
Times(output) ==
    IF output = <<>> THEN <<>>
    ELSE LET line == Head(output)
         IN  IF Contains(line, "time=") /\ FloatOk(TimeStr(line))
             THEN <<FloatVal(TimeStr(line))>> \o Times(Tail(output))
             ELSE Times(Tail(output))

\* "time=" in output
OutputHasTime(output) ==
    \E i \in 1..Len(output) : Contains(output[i], "time=")

Loss100 == [num |-> 100, den |-> 1]      \* "100%"
DownStats == [avg |-> Absent, min |-> Absent, max |-> Absent,
              loss |-> Loss100, status |-> "down"]

\* packet_loss = f"{(1 - len(times)/count) * 100}%"
PacketLoss(k, count) == [num |-> (count - k) * 100, den |-> count]

\* the binary error of sum(times) / len(times): one or two equal samples
\* give back the sample's own double (x / 1, (x + x) / 2 are exact); any other
\* sum and division round, to the side fpDiv
AvgErr(times, fpDiv) ==
    IF Len(times) <= 2 /\ \A i \in 1..Len(times) : times[i] = times[1]
    THEN ReprErr(times[1])
    ELSE fpDiv

UpStats(times, count, fpDiv) ==
    [avg |-> Some(Round2(SeqSum(times), Len(times), AvgErr(times, fpDiv))),
     min |-> Some(Round2(SeqMin(times), 1, ReprErr(SeqMin(times)))),
     max |-> Some(Round2(SeqMax(times), 1, ReprErr(SeqMax(times)))),
     loss |-> PacketLoss(Len(times), count),
     status |-> "up"]

\* what subprocess.run did: returned with a stdout, ran into the overall
\* timeout (TimeoutExpired), or raised anything else (ping not found, ...)
\* fac.fpDiv: the side to which the float average of this run rounds
Ping(fac, count) ==
    CASE fac.kind = "timeout" -> DownStats
      [] fac.kind = "error" -> None
      [] fac.kind = "output" ->
            IF OutputHasTime(fac.stdout) /\ Times(fac.stdout) # <<>>
            THEN UpStats(Times(fac.stdout), count, fac.fpDiv)
            ELSE DownStats

-----------------------------------------------------------------------------
(* The ping outputs of the model *)

PingLines ==
    { <<>>,                                              \* an empty line
      <<"txt">>,                                         \* "PING 10.0.0.1 ..."
      <<"txt", "time=", "1", ".", "2", " ", "ms">>,      \* "... time=1.2 ms"
      <<"txt", "time=", "3", "ms", " ", "txt">>,         \* "... time=3ms TTL=64"
      <<"txt", "time=", "0", ".", "0", "4", "5", " ", "ms">>,
      <<"txt", "time=", "txt", "ms">>,                   \* not a number
      <<"time=">>,                                       \* nothing follows
      <<"time=", " ", "ms">>,                            \* blank
      <<"time=", "2", "time=", "9", "ms">>,              \* two on one line
      <<"7", "ms">> }                                    \* no "time="

RECURSIVE SeqsUpTo(_, _)
SeqsUpTo(S, n) ==
    IF n = 0 THEN {<<>>}
    ELSE LET shorter == SeqsUpTo(S, n - 1)
         IN  shorter \cup {Append(s, x) : s \in shorter, x \in S}

Output(lines, side) == [kind |-> "output", stdout |-> lines, fpDiv |-> side]
TimedOut == [kind |-> "timeout"]
Failed == [kind |-> "error"]

FpSides == {0 - 1, 1}

PingOutputs == {Output(o, side) : o \in SeqsUpTo(PingLines, MaxLines),
                                  side \in FpSides}
Facility == PingOutputs \cup {TimedOut, Failed}

-----------------------------------------------------------------------------
(* DeviceResolver._load_device_map *)

\* src: the JSON file is missing, cannot be read or parsed, or holds map
LoadDeviceMap(src) ==
    CASE src.kind = "missing" -> <<>>
      [] src.kind = "malformed" -> <<>>
      [] src.kind = "json" -> src.map

-----------------------------------------------------------------------------
(* DeviceResolver.check_port *)

\* sock.connect_ex((ip, port)): 0 on success, an errno when refused or timed
\* out; it raises OverflowError for a port outside 0..65535, and the socket
\* calls may raise otherwise (net.fail = "raise")
ConnectEx(net, port) ==
    IF port < 0 \/ port > 65535 THEN "raise"
    ELSE IF port \in net.open THEN "connected"
    ELSE net.fail

\* result == 0, and False from the bare except
CheckPort(net, port) == ConnectEx(net, port) = "connected"

\* what becomes of a socket that no close() was called on: CPython's
\* reference count finalises it when check_port returns; a runtime whose
\* collector runs later leaves the descriptor open until then
Finalizers == {"at_return", "later"}

\* the sockets of one check_port call still open when it returns: sock.close()
\* runs after connect_ex returned; when connect_ex raised, the bare except
\* returns False and the socket is left to its finalizer
SocketsLeft(net, port, fin) ==
    IF ConnectEx(net, port) = "raise" /\ fin = "later" THEN 1 ELSE 0

\* the same over the check_port calls of one resolution, in call order
RECURSIVE SocketsLeftAll(_, _, _)
SocketsLeftAll(net, probed, fin) ==
    IF probed = <<>> THEN 0
    ELSE SocketsLeft(net, Head(probed), fin)
         + SocketsLeftAll(net, Tail(probed), fin)

\* the count of unreleased sockets after n more were left
Leak(n, more) == IF n + more <= MaxSockets THEN n + more ELSE MaxSockets

-----------------------------------------------------------------------------
(* DeviceResolver.get_device_info *)

\* d.get(k, default)
Get(d, k, default) == IF k \in DOMAIN d THEN d[k] ELSE default

\* int(s) of a str: blanks stripped, an optional sign, then digits only;
\* anything else raises ValueError
IntOk(s) == AllDigits(Unsigned(Strip(s)))
IntVal(s) ==
    LET t == Strip(s)
    IN  IF Head(t) = "-" THEN 0 - DigitsVal(Unsigned(t))
        ELSE DigitsVal(Unsigned(t))

\* DictSet, had the record been kept sorted by port number
DictSetSorted(ports, entry) ==
    LET others == SelectSeq(ports, LAMBDA e : e.port # entry.port)
        below == SelectSeq(others, LAMBDA e : e.port < entry.port)
        above == SelectSeq(others, LAMBDA e : e.port > entry.port)
    IN  below \o <<entry>> \o above

\* ports[port] = entry: a dict keeps a key's first position
DictSet(ports, entry) ==
    IF \E i \in 1..Len(ports) : ports[i].port = entry.port
    THEN [i \in 1..Len(ports) |->
             IF ports[i].port = entry.port THEN entry ELSE ports[i]]
    ELSE Append(ports, entry)

PortEntry(net, port, service) ==
    [port |-> port, service |-> service,
     status |-> IF CheckPort(net, port) THEN "open" ELSE "closed"]

\* essential_ports = {80: 'HTTP', 443: 'HTTPS'}
EssentialPorts == << <<80, "HTTP">>, <<443, "HTTPS">> >>

\* for port, service in essential_ports.items(): ...
RECURSIVE CheckEssential(_, _, _)
CheckEssential(net, todo, st) ==
    IF todo = <<>> THEN st
    ELSE CheckEssential(net, Tail(todo),
            [ports |-> DictSet(st.ports,
                               PortEntry(net, Head(todo)[1], Head(todo)[2])),
             probed |-> Append(st.probed, Head(todo)[1])])

\* for port, service in device_ports.items(): int(port), check_port, or the
\* ValueError branch that skips the entry
RECURSIVE CheckDeclared(_, _, _)
CheckDeclared(net, todo, st) ==
    IF todo = <<>> THEN st
    ELSE LET key == Head(todo).key
             service == Head(todo).service
         IN  IF IntOk(key)
             THEN CheckDeclared(net, Tail(todo),
                    [ports |-> DictSet(st.ports,
                                       PortEntry(net, IntVal(key), service)),
                     probed |-> Append(st.probed, IntVal(key))])
             ELSE CheckDeclared(net, Tail(todo), st)

\* the value returned (ret) and the probes made on the way (pings, probed)
Returned(ret, pings, probed) ==
    [ret |-> ret, pings |-> pings, probed |-> probed]

\* a payload that json.loads made something else than a dict
NotADict == [notadict |-> TRUE]

\* not x, for a str or None
Falsy(x) == x = NoneStr \/ x = ""

\* GetDeviceInfo, had the registry lookup come after the probes
GetDeviceInfoProbesFirst(dm, device_info, fac, net, t) ==
    LET device_id == Get(device_info, "device_id", NoneStr)
        ip == Get(device_info, "ip", NoneStr)
        device_details == Get(dm, device_id, <<>>)
        ping0 == Ping(fac, DefaultCount)
        ping_stats == IF ping0 = None THEN DownStats ELSE ping0
        essential == CheckEssential(net, EssentialPorts,
                                    [ports |-> <<>>, probed |-> <<>>])
        device_ports == Get(device_details, "ports", <<>>)
        all == CheckDeclared(net, device_ports, essential)
    IN  IF device_info = NotADict
        THEN Returned(None, 0, <<>>)
        ELSE IF Falsy(device_id) \/ Falsy(ip)
        THEN Returned(None, 0, <<>>)
        ELSE IF device_details = <<>>
        THEN Returned(None, 1, essential.probed)
        ELSE Returned(
                [device_id |-> device_id,
                 ip |-> ip,
                 type |-> Get(device_details, "type", "unknown"),
                 location |-> Get(device_details, "location", "unknown"),
                 model |-> Get(device_details, "model", "unknown"),
                 ping |-> ping_stats,
                 ports |-> all.ports,
                 last_check |-> t],
                1, all.probed)

\* GetDeviceInfo, had the check of the payload tested device_id alone
GetDeviceInfoNoIpCheck(dm, device_info, fac, net, t) ==
    LET device_id == Get(device_info, "device_id", NoneStr)
        ip == Get(device_info, "ip", NoneStr)
        device_details == Get(dm, device_id, <<>>)
        ping0 == Ping(fac, DefaultCount)
        ping_stats == IF ping0 = None THEN DownStats ELSE ping0
        essential == CheckEssential(net, EssentialPorts,
                                    [ports |-> <<>>, probed |-> <<>>])
        device_ports == Get(device_details, "ports", <<>>)
        all == CheckDeclared(net, device_ports, essential)
    IN  IF device_info = NotADict
        THEN Returned(None, 0, <<>>)
        ELSE IF Falsy(device_id)
        THEN Returned(None, 0, <<>>)
        ELSE IF device_details = <<>>
        THEN Returned(None, 0, <<>>)
        ELSE Returned(
                [device_id |-> device_id,
                 ip |-> ip,
                 type |-> Get(device_details, "type", "unknown"),
                 location |-> Get(device_details, "location", "unknown"),
                 model |-> Get(device_details, "model", "unknown"),
                 ping |-> ping_stats,
                 ports |-> all.ports,
                 last_check |-> t],
                1, all.probed)

GetDeviceInfo(dm, device_info, fac, net, t) ==
    LET device_id == Get(device_info, "device_id", NoneStr)
        ip == Get(device_info, "ip", NoneStr)
        device_details == Get(dm, device_id, <<>>)
        ping0 == Ping(fac, DefaultCount)
        ping_stats == IF ping0 = None THEN DownStats ELSE ping0
        essential == CheckEssential(net, EssentialPorts,
                                    [ports |-> <<>>, probed |-> <<>>])
        device_ports == Get(device_details, "ports", <<>>)
        all == CheckDeclared(net, device_ports, essential)
    IN  IF device_info = NotADict        \* .get raises, caught at the end
        THEN Returned(None, 0, <<>>)
        ELSE IF Falsy(device_id) \/ Falsy(ip)
        THEN Returned(None, 0, <<>>)
        ELSE IF device_details = <<>>
        THEN Returned(None, 0, <<>>)
        ELSE Returned(
                [device_id |-> device_id,
                 ip |-> ip,
                 type |-> Get(device_details, "type", "unknown"),
                 location |-> Get(device_details, "location", "unknown"),
                 model |-> Get(device_details, "model", "unknown"),
                 ping |-> ping_stats,
                 ports |-> all.ports,
                 last_check |-> t],
                1, all.probed)

-----------------------------------------------------------------------------
(* ping() on its own: every outcome of the facility, every count *)

InitPing ==
    /\ pingIn \in Facility
    /\ pingCount \in 1..MaxCount
    /\ pingRes = Pending
    /\ device_map = <<>>
    /\ current_device = NoneStr
    /\ current_diagnostics = None
    /\ last_scan_time = 0
    /\ last_ping_time = 0
    /\ now = 0
    /\ running = FALSE
    /\ resIn = None
    /\ resOut = Pending
    /\ probeLog = Returned(None, 0, <<>>)
    /\ sockets = 0

PingCall ==
    /\ pingRes = Pending
    /\ pingRes' = Ping(pingIn, pingCount)
    /\ UNCHANGED <<pingIn, pingCount, device_map, hostVars, resVars>>

NextPing == PingCall

SpecPing == InitPing /\ [][NextPing]_vars

-----------------------------------------------------------------------------
(* The registries, payloads and networks of the model *)

\* keys of a registry entry's "ports" object, with the label each declares
Declared(key, service) == [key |-> key, service |-> service]
PortKeys ==
    { Declared(<<"2", "2">>, "SSH"),
      Declared(<<"8", "0">>, "WEB"),
      Declared(<<"0", "8", "0">>, "ALT"),
      Declared(<<"8", "0", "8", "0">>, "custom"),
      Declared(<<"7", "0", "0", "0", "0">>, "big"),
      Declared(<<"0">>, "zero"),
      Declared(<<"-", "1">>, "neg"),
      Declared(<<"txt">>, "bad") }

\* a JSON object has each key once
DeclaredLists ==
    {q \in SeqsUpTo(PortKeys, MaxDeclared) :
        \A i, j \in 1..Len(q) : i # j => q[i] # q[j]}

DeviceDetails ==
    {<<>>}
    \cup {[type |-> "switch", location |-> "rack-1"]}
    \cup {[ports |-> q] : q \in DeclaredLists}
    \cup {[type |-> "switch", location |-> "rack-1", model |-> "m1",
           ports |-> q] : q \in DeclaredLists}

Missing == [kind |-> "missing"]
Malformed == [kind |-> "malformed"]
Json(map) == [kind |-> "json", map |-> map]

MapSources ==
    {Missing, Malformed} \cup {Json([SW1 |-> d]) : d \in DeviceDetails}

\* decoded QR payloads: a field may be missing or empty
Payloads ==
    { [device_id |-> "SW1", ip |-> "10.0.0.1"],
      [device_id |-> "X9", ip |-> "10.0.0.9"],
      [device_id |-> "SW1"],
      [device_id |-> "SW1", ip |-> ""],
      [ip |-> "10.0.0.1"],
      [device_id |-> "", ip |-> "10.0.0.1"],
      NotADict }

\* runs of the ping facility met by a resolution
Reply12 == <<"txt", "time=", "1", ".", "2", " ", "ms">>
Reply3 == <<"txt", "time=", "3", "ms", " ", "txt">>
Garbled == <<"txt", "time=", "txt", "ms">>
ResolveRuns ==
    { Output(<<>>, 1),
      Output(<<Reply12>>, 1),
      Output(<<<<"txt">>, Reply12, Reply3>>, 1),
      Output(<<Garbled>>, 1),
      TimedOut,
      Failed }

\* the network seen by check_port: the ports that accept, and what a
\* connect to any other port does
Nets ==
    {[open |-> o, fail |-> "refused"] : o \in SUBSET {22, 80, 443, 8080}}
    \cup {[open |-> {}, fail |-> f] : f \in {"timeout", "raise"}}

-----------------------------------------------------------------------------
(* get_device_info() on its own: every registry, payload, ping run and
   network *)

InitResolve ==
    /\ \E src \in MapSources : device_map = LoadDeviceMap(src)
    /\ resIn = None
    /\ resOut = Pending
    /\ probeLog = Returned(None, 0, <<>>)
    /\ sockets = 0
    /\ pingIn = TimedOut
    /\ pingCount = DefaultCount
    /\ pingRes = Pending
    /\ current_device = NoneStr
    /\ current_diagnostics = None
    /\ last_scan_time = 0
    /\ last_ping_time = 0
    /\ now = 0
    /\ running = FALSE

Resolve ==
    /\ resOut = Pending
    /\ \E device_info \in Payloads, fac \in ResolveRuns, net \in Nets,
          fin \in Finalizers :
          LET r == GetDeviceInfo(device_map, device_info, fac, net, now)
          IN  /\ resIn' = device_info
              /\ resOut' = r.ret
              /\ probeLog' = r
              /\ pingIn' = fac
              /\ sockets' = Leak(sockets,
                                 SocketsLeftAll(net, r.probed, fin))
    /\ UNCHANGED <<device_map, hostVars, pingCount, pingRes>>

NextResolve == Resolve

SpecResolve == InitResolve /\ [][NextResolve]_vars

-----------------------------------------------------------------------------
(* main(): the host loop.  One pass of the loop runs the scan block, the
   re-ping block and the key block in turn; each acts only when its own
   condition on the clock or the keyboard holds, so each is an action. *)

HostSources ==
    { Missing,
      Json([SW1 |-> [type |-> "switch", location |-> "rack-1",
                     ports |-> <<Declared(<<"2", "2">>, "SSH")>>],
            R2 |-> [type |-> "router", model |-> "m2"]]) }

\* qr_scanner.scan(frame): None, or the decoded payload
NoScan == [noscan |-> TRUE]
ScanResults ==
    { NoScan,
      [device_id |-> "SW1", ip |-> "10.0.0.1"],
      [device_id |-> "R2", ip |-> "10.0.0.2"],
      [device_id |-> "X9", ip |-> "10.0.0.9"],
      [device_id |-> "SW1"],
      [ip |-> "10.0.0.1"],
      NotADict }

HostRuns ==
    { Output(<<>>, 1),
      Output(<<Reply12>>, 1),
      Output(<<Reply12, Reply3>>, 1),
      TimedOut,
      Failed }

HostNets ==
    { [open |-> {}, fail |-> "refused"],
      [open |-> {22, 80}, fail |-> "timeout"],
      [open |-> {}, fail |-> "raise"] }

Init ==
    /\ \E src \in HostSources : device_map = LoadDeviceMap(src)
    /\ current_device = NoneStr
    /\ current_diagnostics = None
    /\ last_scan_time = 0
    /\ last_ping_time = 0
    /\ now = PingInterval      \* time.time() is past both intervals
    /\ running = TRUE
    /\ pingIn = TimedOut
    /\ pingCount = DefaultCount
    /\ pingRes = Pending
    /\ resIn = None
    /\ resOut = Pending
    /\ probeLog = Returned(None, 0, <<>>)
    /\ sockets = 0

idleVars == <<device_map, pingVars, resVars>>

\* the clock moves on between two readings of it
Tick ==
    /\ running
    /\ now < MaxTime
    /\ now' = now + 1
    /\ UNCHANGED <<current_device, current_diagnostics, last_scan_time,
                   last_ping_time, running, idleVars>>

\* Scan, had a failed resolution of a new device kept the record held
ScanKeepsRecord ==
    /\ running
    /\ now - last_scan_time >= ScanInterval
    /\ last_scan_time' = now
    /\ \E device_info \in ScanResults :
          IF device_info = NoScan
          THEN UNCHANGED <<current_device, current_diagnostics,
                           last_ping_time, running, sockets>>
          ELSE IF device_info = NotADict
          THEN /\ running' = FALSE
               /\ UNCHANGED <<current_device, current_diagnostics,
                              last_ping_time, sockets>>
          ELSE IF Get(device_info, "device_id", NoneStr) # current_device
          THEN \E fac \in HostRuns, net \in HostNets, fin \in Finalizers :
                  LET r == GetDeviceInfo(device_map, device_info, fac, net,
                                         now)
                  IN  /\ current_device' =
                            Get(device_info, "device_id", NoneStr)
                      /\ current_diagnostics' =
                            IF r.ret = None THEN current_diagnostics
                            ELSE r.ret
                      /\ sockets' = Leak(sockets,
                                         SocketsLeftAll(net, r.probed, fin))
                      /\ last_ping_time' = now
                      /\ UNCHANGED running
          ELSE UNCHANGED <<current_device, current_diagnostics,
                           last_ping_time, running, sockets>>
    /\ UNCHANGED <<now, device_map, pingVars, resIn, resOut, probeLog>>

\* lines 140-160: the scan block
Scan ==
    /\ running
    /\ now - last_scan_time >= ScanInterval
    /\ last_scan_time' = now
    /\ \E device_info \in ScanResults :
          IF device_info = NoScan
          THEN UNCHANGED <<current_device, current_diagnostics,
                           last_ping_time, running, sockets>>
          ELSE IF device_info = NotADict     \* device_info.get raises
          THEN /\ running' = FALSE
               /\ UNCHANGED <<current_device, current_diagnostics,
                              last_ping_time, sockets>>
          ELSE IF Get(device_info, "device_id", NoneStr) # current_device
          THEN \E fac \in HostRuns, net \in HostNets, fin \in Finalizers :
                  LET r == GetDeviceInfo(device_map, device_info, fac, net,
                                         now)
                  IN  /\ current_device' =
                            Get(device_info, "device_id", NoneStr)
                      /\ current_diagnostics' = r.ret
                      /\ sockets' = Leak(sockets,
                                         SocketsLeftAll(net, r.probed, fin))
                      /\ last_ping_time' = now
                      /\ UNCHANGED running
          ELSE UNCHANGED <<current_device, current_diagnostics,
                           last_ping_time, running, sockets>>
    /\ UNCHANGED <<now, device_map, pingVars, resIn, resOut, probeLog>>

\* RePing, had the refresh stamped the record as well
RePingStamped ==
    /\ running
    /\ ~Falsy(current_device)
    /\ now - last_ping_time >= PingInterval
    /\ current_diagnostics # None
    /\ ~Falsy(current_diagnostics.ip)
    /\ \E fac \in HostRuns :
          current_diagnostics' =
              [current_diagnostics EXCEPT !.ping = Ping(fac, DefaultCount),
                                          !.last_check = now]
    /\ last_ping_time' = now
    /\ UNCHANGED <<current_device, last_scan_time, now, running, idleVars>>

\* lines 161-170: the re-ping block
RePing ==
    /\ running
    /\ ~Falsy(current_device)
    /\ now - last_ping_time >= PingInterval
    /\ current_diagnostics # None
    /\ ~Falsy(current_diagnostics.ip)
    /\ \E fac \in HostRuns :
          current_diagnostics' =
              [current_diagnostics EXCEPT !.ping = Ping(fac, DefaultCount)]
    /\ last_ping_time' = now
    /\ UNCHANGED <<current_device, last_scan_time, now, running, idleVars>>

\* key 'r'
KeyR ==
    /\ running
    /\ last_scan_time' = 0
    /\ current_device' = NoneStr
    /\ current_diagnostics' = None
    /\ UNCHANGED <<last_ping_time, now, running, idleVars>>

\* key 'c'
KeyC ==
    /\ running
    /\ current_device' = NoneStr
    /\ current_diagnostics' = None
    /\ UNCHANGED <<last_scan_time, last_ping_time, now, running, idleVars>>

\* key 'q', or camera.read() fails: the loop is left.  (Keys 'h' and 's'
\* print and write a file; they change none of the loop's variables.)
Quit ==
    /\ running
    /\ running' = FALSE
    /\ UNCHANGED <<current_device, current_diagnostics, last_scan_time,
                   last_ping_time, now, idleVars>>

Next == Tick \/ Scan \/ RePing \/ KeyR \/ KeyC \/ Quit

Spec == Init /\ [][Next]_vars

-----------------------------------------------------------------------------
(* Claims about ping(), checked under SpecPing *)

PingReturned == pingRes # Pending /\ pingIn.kind = "output"

\* the samples of the output under check, and their values as round(x, 2)
\* reports them
Extracted == Times(pingIn.stdout)
Rounded == {Round2(Extracted[i], 1, ReprErr(Extracted[i])) :
                i \in 1..Len(Extracted)}

\* C4: for every ping output and every count n >= 1 the reported loss is
\* 1 - k/n clamped into [0,1], k being the number of samples extracted; it
\* is never negative, also when k > n.
C4_LossIsClampedFraction ==
    PingReturned =>
        LET k == Len(Extracted)
            n == pingCount
            lost == IF k > n THEN 0 ELSE n - k
        IN  /\ pingRes.loss.num >= 0
            /\ pingRes.loss.num * n = pingRes.loss.den * 100 * lost

\* C5: for every ping output, status is up exactly when at least one sample
\* was extracted; when up, avg, min and max are present, are those of the
\* extracted samples and min <= avg <= max; when no sample is extracted,
\* status is down, loss is 100% and avg, min, max are absent.
C5_UpIffSampleAndOrdered ==
    PingReturned =>
        /\ (pingRes.status = "up") <=> (Len(Extracted) >= 1)
        /\ pingRes.status = "up" =>
              /\ pingRes.avg # Absent /\ pingRes.min # Absent
              /\ pingRes.max # Absent
              /\ pingRes.min[1] \in Rounded /\ pingRes.max[1] \in Rounded
              /\ \A r \in Rounded : pingRes.min[1] <= r /\ r <= pingRes.max[1]
              /\ pingRes.min[1] <= pingRes.avg[1]
              /\ pingRes.avg[1] <= pingRes.max[1]
        /\ Len(Extracted) = 0 =>
              /\ pingRes.status = "down"
              /\ pingRes.loss = Loss100
              /\ pingRes.avg = Absent /\ pingRes.min = Absent
              /\ pingRes.max = Absent

-----------------------------------------------------------------------------
(* Claims about get_device_info(), checked under SpecResolve *)

Resolved == resOut # Pending
InId == Get(resIn, "device_id", NoneStr)
InIp == Get(resIn, "ip", NoneStr)
IsDiagnostics(r) == "device_id" \in DOMAIN r
GotRecord == Resolved /\ IsDiagnostics(resOut)

\* the ports the registry declares for the resolved device
DeclaredOf(id) == Get(Get(device_map, id, <<>>), "ports", <<>>)
Numeric(q) == SelectSeq(q, LAMBDA d : IntOk(d.key))
InRange(port) == port >= 1 /\ port <= 65535
ValidDeclared(q) ==
    {IntVal(Numeric(q)[i].key) : i \in 1..Len(Numeric(q))}
        \cap {port \in -1..70000 : InRange(port)}
RecordPorts == {resOut.ports[i].port : i \in 1..Len(resOut.ports)}

\* C1: for a device_id that is not in the registry (also when the registry
\* is empty after a failed load) the resolution fails and makes no probe: no
\* ping and no port connect.
C1_UnknownDeviceNotProbed ==
    (Resolved /\ InId \notin DOMAIN device_map) =>
        /\ resOut = None
        /\ probeLog.pings = 0
        /\ probeLog.probed = <<>>

C1_Witness ==
    /\ Resolved
    /\ InId = "X9" /\ InIp = "10.0.0.9"
    /\ "SW1" \in DOMAIN device_map
    /\ resOut = None

\* C2: for a known device the ports of the record are exactly {80, 443}
\* together with the valid (numeric, 1..65535) declared ports, each once,
\* and a port that is declared carries a declared label.
C2_PortsAreWellKnownAndValidDeclared ==
    GotRecord =>
        LET q == DeclaredOf(InId)
        IN  /\ RecordPorts = {80, 443} \cup ValidDeclared(q)
            /\ Cardinality(RecordPorts) = Len(resOut.ports)
            /\ \A i \in 1..Len(resOut.ports) :
                  LET e == resOut.ports[i]
                      labels == {Numeric(q)[j].service :
                                    j \in {k \in 1..Len(Numeric(q)) :
                                       IntVal(Numeric(q)[k].key) = e.port}}
                  IN  IF labels # {} THEN e.service \in labels
                      ELSE e.service = (IF e.port = 80 THEN "HTTP"
                                        ELSE "HTTPS")

\* C3 as stated: the port results of a record are in ascending order of
\* port number.
C3_PortsAscending ==
    GotRecord =>
        \A i, j \in 1..Len(resOut.ports) :
            i < j => resOut.ports[i].port < resOut.ports[j].port

\* the distinct numbers of a sequence, in the order they first appear
RECURSIVE FirstOccurrences(_)
FirstOccurrences(q) ==
    IF q = <<>> THEN <<>>
    ELSE LET init == FirstOccurrences(SubSeq(q, 1, Len(q) - 1))
             last == q[Len(q)]
         IN  IF \E i \in 1..Len(init) : init[i] = last THEN init
             ELSE Append(init, last)

\* C3 as amended: the port results are in probe order: 80, 443, then the
\* other declared ports in the order the registry first declares them.
C3_PortsInProbeOrder ==
    GotRecord =>
        LET q == Numeric(DeclaredOf(InId))
            order == FirstOccurrences(
                        <<80, 443>> \o [i \in 1..Len(q) |-> IntVal(q[i].key)])
        IN  [i \in 1..Len(resOut.ports) |-> resOut.ports[i].port] = order

C3_Witness ==
    /\ GotRecord
    /\ Len(resOut.ports) = 3
    /\ resOut.ports[1].port = 80
    /\ resOut.ports[2].port = 443
    /\ resOut.ports[3].port = 22

\* C8: every port number of a record lies in 1..65535: a declared entry
\* that is not numeric or is out of range is skipped.
C8_RecordPortsInRange ==
    GotRecord => \A port \in RecordPorts : InRange(port)

\* the cause of a failure, as the claim names them
Cause(device_info) ==
    IF device_info = NotADict THEN "other"
    ELSE IF Falsy(Get(device_info, "device_id", NoneStr))
            \/ Falsy(Get(device_info, "ip", NoneStr))
    THEN "malformed"
    ELSE IF Get(device_info, "device_id", NoneStr) \notin DOMAIN device_map
    THEN "unknown"
    ELSE "other"

\* C9 as stated: a failed resolution returns a value that tells its cause:
\* no payload that fails for another cause gets the same value returned.
C9_FailureCausesDistinguishable ==
    (Resolved /\ ~IsDiagnostics(resOut)) =>
        \A other \in Payloads :
            LET r == GetDeviceInfo(device_map, other, pingIn,
                                   [open |-> {}, fail |-> "refused"], now).ret
            IN  (~IsDiagnostics(r) /\ Cause(other) # Cause(resIn))
                    => r # resOut

\* C9 as amended: every failure of a resolution (a payload that is no dict
\* or lacks device_id or ip, an unregistered device_id) returns the one
\* value None, whatever the cause; only a success returns a record, which
\* is that of the payload's device and address.
C9_EveryFailureReturnsNone ==
    Resolved =>
        /\ (resIn = NotADict \/ Cause(resIn) \in {"malformed", "unknown"})
              => resOut = None
        /\ resOut # None =>
              /\ IsDiagnostics(resOut)
              /\ resOut.device_id = InId /\ resOut.ip = InIp

C9_Witness ==
    /\ Resolved
    /\ resIn = [device_id |-> "SW1"]
    /\ "SW1" \in DOMAIN device_map /\ device_map["SW1"] # <<>>
    /\ resOut = None

\* C10: for a device_id that is a key of the registry and a non-empty
\* address the resolution returns a record, whatever the probes do and
\* whatever the registry entry holds.
C10_RegisteredDeviceResolves ==
    (Resolved /\ InId \in DOMAIN device_map /\ ~Falsy(InIp)) => GotRecord

\* C11: every socket a port probe opens is released on every exit path of
\* the probe (connect success, refusal, timeout, an exception of the socket
\* calls): after a resolution no probe socket is left open.
C11_NoProbeSocketLeftOpen ==
    Resolved => sockets = 0

-----------------------------------------------------------------------------
(* Claims about the host loop, checked under Spec *)

Held == current_diagnostics # None

\* the fields of a record other than ping and last_check
Identity(d) == <<d.device_id, d.ip, d.type, d.location, d.model, d.ports>>

\* C6 as stated: every refresh leaves device_id, address, type, location,
\* model and ports unchanged and updates the ping field and the timestamp:
\* after a refresh last_check is the time of the refresh.
C6_RefreshStampsRecord ==
    [][RePing =>
          /\ Identity(current_diagnostics') = Identity(current_diagnostics)
          /\ current_diagnostics'.last_check = now']_vars

\* C6 as amended: every refresh leaves device_id, address, type, location,
\* model, ports and last_check unchanged and replaces the ping field alone,
\* by what ping() returned: last_check stays the time of the resolution.
C6_RefreshReplacesOnlyPing ==
    [][RePing =>
          /\ Identity(current_diagnostics') = Identity(current_diagnostics)
          /\ current_diagnostics'.last_check = current_diagnostics.last_check
          /\ current_diagnostics'.last_check < now'
          /\ \E fac \in HostRuns :
                current_diagnostics'.ping = Ping(fac, DefaultCount)]_vars

\* a record that a refresh has re-pinged: pinged later than it was stamped
C6_Witness ==
    /\ Held
    /\ last_ping_time >= current_diagnostics.last_check + PingInterval
    /\ current_diagnostics.ping # None
    /\ current_diagnostics.ping.status = "up"

\* C7: the ping field of the record the host holds is always a ping result
\* with status up or down, never None, after any resolutions and refreshes
\* (a facility that cannot be invoked gives down, 100% loss, no statistics).
C7_HeldPingIsResult ==
    Held =>
        /\ current_diagnostics.ping # None
        /\ current_diagnostics.ping.status \in {"up", "down"}

\* a step of the scan block that met another device than the current one:
\* the scan block alone moves last_scan_time to the clock (key 'r' sets it
\* to 0, and the clock is past ScanInterval from the start)
NewDeviceScanned ==
    /\ last_scan_time # now
    /\ last_scan_time' = now
    /\ current_device' # current_device

\* C12: whenever the host holds a record, current_device is set and is the
\* device_id of that record; a scan of another device whose resolution
\* fails drops the record held, and after key 'r' or 'c' neither a device
\* nor a record is held.
C12_HeldRecordIsOfCurrentDevice ==
    /\ [](Held => /\ ~Falsy(current_device)
                  /\ current_diagnostics.device_id = current_device)
    /\ [][NewDeviceScanned
              => /\ \/ current_diagnostics' = None
                    \/ /\ current_diagnostics'.device_id = current_device'
                       /\ current_diagnostics'.last_check = now
                 /\ current_device' \notin DOMAIN device_map
                       => current_diagnostics' = None]_vars
    /\ [][(KeyR \/ KeyC)
              => current_device' = NoneStr /\ current_diagnostics' = None]_vars

\* a record held for R2, resolved after the loop's first scan time
C12_Witness ==
    /\ Held
    /\ current_device = "R2"
    /\ current_diagnostics.device_id = "R2"
    /\ current_diagnostics.last_check > PingInterval

=============================================================================
